---------------------------- MODULE Spec2Model ----------------------------
(***************************************************************************)
(* Pile bearing capacity (Decourt-Quaresma) and pile-cap verification of   *)
(* base-tanque: suelo.py (Suelo), zpilot.py (Pilote, Cabezal), tanque.py.  *)
(*                                                                         *)
(* Numbers are exact rationals [k |-> "num", n, d] with d > 0 in lowest    *)
(* terms.  A value whose k is "nan" is numpy's NaN; any other k is the     *)
(* name of the Python exception the evaluation raised.                     *)
(***************************************************************************)
EXTENDS Integers, Naturals, Sequences, FiniteSets, TLC

VARIABLES suelo, pilote, cabezal, tanque, op, arg, ret, arr

vars == <<suelo, pilote, cabezal, tanque, op, arg, ret, arr>>

(***************************************************************************)
(* Bounds of the model.                                                    *)
(***************************************************************************)
\* deepest SPT survey, in metres, of a Suelo
MaxDepth == 4
\* deepest SPT survey, in metres, of the profile handed to a Pilote
MaxDepthPilote == 4

(***************************************************************************)
(* Python float arithmetic, as exact rationals.                            *)
(***************************************************************************)
Abs(x) == IF x < 0 THEN -x ELSE x

RECURSIVE GCD(_, _)
GCD(a, b) == IF b = 0 THEN a ELSE GCD(b, a % b)

Frac(n, d) ==
    LET g == GCD(Abs(n), Abs(d))
        s == IF d < 0 THEN -1 ELSE 1
    IN [k |-> "num", n |-> s * (n \div g), d |-> s * (d \div g)]

Num(n) == [k |-> "num", n |-> n, d |-> 1]

NaN == [k |-> "nan", n |-> 0, d |-> 1]

Raise(e) == [k |-> e, n |-> 0, d |-> 1]

IsNum(x) == x.k = "num"
IsNaN(x) == x.k = "nan"
IsErr(x) == x.k \notin {"num", "nan"}

\* the exceptions the modelled code raises
Exceptions == {"IndexError", "TypeError", "ZeroDivisionError",
               "AttributeError", "ValueError", "UnboundLocalError"}

\* an exception in the left operand is raised before the right one is evaluated
Lift(x, y, v) ==
    IF IsErr(x) THEN x
    ELSE IF IsErr(y) THEN y
    ELSE IF IsNaN(x) \/ IsNaN(y) THEN NaN
    ELSE v

LCM(a, b) == (a \div GCD(a, b)) * b

Add(x, y) ==
    LET l == LCM(x.d, y.d)
    IN Lift(x, y, Frac(x.n * (l \div x.d) + y.n * (l \div y.d), l))

Neg(x) == IF IsNum(x) THEN [x EXCEPT !.n = -x.n] ELSE x

Sub(x, y) == Add(x, Neg(y))

Mul(x, y) ==
    LET g1 == GCD(Abs(x.n), y.d)
        g2 == GCD(Abs(y.n), x.d)
    IN Lift(x, y, Frac((x.n \div g1) * (y.n \div g2),
                       (x.d \div g2) * (y.d \div g1)))

\* float / float: a zero divisor raises ZeroDivisionError
Div(x, y) ==
    IF IsErr(x) THEN x
    ELSE IF IsErr(y) THEN y
    ELSE IF IsNaN(x) \/ IsNaN(y) THEN NaN
    ELSE IF y.n = 0 THEN Raise("ZeroDivisionError")
    ELSE Mul(x, Frac(y.d, y.n))

\* x < y on floats: False as soon as one side is NaN
Lt(x, y) ==
    LET l == LCM(x.d, y.d)
    IN  /\ IsNum(x)
        /\ IsNum(y)
        /\ x.n * (l \div x.d) < y.n * (l \div y.d)

\* the builtin min(a, b): a unless b < a
PyMin(a, b) ==
    IF IsErr(a) THEN a ELSE IF IsErr(b) THEN b
    ELSE IF Lt(b, a) THEN b ELSE a

\* the builtin max(a, b): a unless b > a
PyMax(a, b) ==
    IF IsErr(a) THEN a ELSE IF IsErr(b) THEN b
    ELSE IF Lt(a, b) THEN b ELSE a

\* int(x): truncation towards zero
PyInt(x) == IF x.n >= 0 THEN x.n \div x.d ELSE -((-x.n) \div x.d)

(***************************************************************************)
(* Sequence access as Python and numpy do it (positions count from 0).     *)
(***************************************************************************)
\* the position S[i] reads, or -1 when i is out of bounds (IndexError)
PyPos(len, i) ==
    LET j == IF i < 0 THEN i + len ELSE i
    IN IF j >= 0 /\ j < len THEN j ELSE -1

\* the positions the slice S[:stop] selects
SlicePos(len, stop) ==
    LET j == IF stop < 0 THEN stop + len ELSE stop
        e == IF j < 0 THEN 0 ELSE IF j > len THEN len ELSE j
    IN 0 .. (e - 1)

RECURSIVE SumAt(_, _)
SumAt(S, P) ==
    IF P = {} THEN 0
    ELSE LET p == CHOOSE q \in P : TRUE
         IN S[p + 1] + SumAt(S, P \ {p})

\* np.mean over the selected positions: NaN for an empty selection
Mean(S, P) == IF P = {} THEN NaN ELSE Frac(SumAt(S, P), Cardinality(P))

\* (S[i1] + S[i2] + S[i3])/3
Mean3(S, idx) ==
    IF \E i \in 1 .. 3 : PyPos(Len(S), idx[i]) = -1
    THEN Raise("IndexError")
    ELSE Frac(S[PyPos(Len(S), idx[1]) + 1] + S[PyPos(Len(S), idx[2]) + 1]
              + S[PyPos(Len(S), idx[3]) + 1], 3)

(***************************************************************************)
(* suelo.py: class Suelo                                                   *)
(***************************************************************************)
\* Clamp without the second np.where
ClampNoUpper(x) == IF x < 3 THEN 3 ELSE x

\* np.where(np.where(spt < 3, 3, spt) > 50, 50, ...)
Clamp(x) ==
    LET y == IF x < 3 THEN 3 ELSE x
    IN IF y > 50 THEN 50 ELSE y

Suelo_spt_ajustado(spt) == [i \in 1 .. Len(spt) |-> Clamp(spt[i])]

Suelo_profundidad_sondeada(spt) == Len(spt)

\* Suelo.Np with the straddling window one metre deeper: S[L-1], S[L], S[L+1]
Suelo_Np_indices_deeper(spt, longitud_pilote) ==
    LET ps == Suelo_profundidad_sondeada(spt)
        L  == PyInt(longitud_pilote)
    IN IF ps = L THEN <<-3, -2, -1>>
       ELSE IF ps > L THEN <<L - 1, L, L + 1>>
       ELSE <<>>

\* the Python indices Suelo.Np reads, <<>> on the branch that raises
Suelo_Np_indices(spt, longitud_pilote) ==
    LET ps == Suelo_profundidad_sondeada(spt)
        L  == PyInt(longitud_pilote)
    IN IF ps = L THEN <<-3, -2, -1>>
       ELSE IF ps > L THEN <<L - 2, L - 1, L>>
       ELSE <<>>

Suelo_Np(spt, longitud_pilote) ==
    LET S   == Suelo_spt_ajustado(spt)
        idx == Suelo_Np_indices(spt, longitud_pilote)
    IN IF idx = <<>> THEN Raise("IndexError") ELSE Mean3(S, idx)

\* the slice [:L - 3]
Suelo_NL_window_short(spt, longitud_pilote) ==
    SlicePos(Len(spt), PyInt(longitud_pilote) - 3)

\* the positions of the slice Suelo.NL averages
Suelo_NL_window(spt, longitud_pilote) ==
    SlicePos(Len(spt), PyInt(longitud_pilote) - 2)

Suelo_NL(spt, longitud_pilote) ==
    Mean(Suelo_spt_ajustado(spt), Suelo_NL_window(spt, longitud_pilote))

(***************************************************************************)
(* zpilot.py: class Pilote                                                 *)
(***************************************************************************)
\* math.pi is a binary64, a rational close to pi; the model carries the
\* rational 3.14 so that products stay inside TLC's 32-bit integers
math_pi == Frac(157, 50)

\* math.sqrt(2), likewise
math_sqrt2 == Frac(707, 500)

\* TABLALPHA.iloc[suelo, perforacion], in hundredths
ALPHA == << <<100, 100, 100, 100>>, <<85, 60, 60, 50>>, <<85, 60, 60, 50>>,
            <<30, 30, 30, 30>>, <<85, 60, 60, 50>>, <<100, 100, 100, 100>> >>

\* TABLABETA.iloc[suelo, perforacion], in hundredths
BETA == << <<100, 100, 100, 100>>, <<85, 65, 65, 50>>, <<90, 75, 75, 60>>,
           <<100, 100, 100, 100>>, <<150, 150, 150, 150>>,
           <<300, 300, 300, 300>> >>

\* K of the tip resistance, N/m2
DK == <<120000, 200000, 250000, 400000>>

\* Hormigon.peso_esp, N/m3
peso_esp == 24000

\* Pilote.gamma_p
gamma_p == 4

\* Pilote.gamma_L = 1.3
gamma_L == Frac(13, 10)

Pilote_area(p) ==
    Mul(math_pi, Mul(Div(p.diametro, Num(2)), Div(p.diametro, Num(2))))

Pilote_area_lateral(p) == Mul(Mul(math_pi, p.diametro), p.longitud)

Pilote_spt_ajustado(spt) == [i \in 1 .. Len(spt) |-> Clamp(spt[i])]

Pilote_alpha(p) ==
    Frac(ALPHA[p.perforacion_tipo + 1][p.suelo_punta + 1], 100)

Pilote_valor_K(p) == Num(DK[p.suelo_punta + 1])

\* len(spt) == L builds the tuple (S[-3], S[-2], S[-1]) and divides it by 3,
\* which raises TypeError
Pilote_Np(p) ==
    LET S == Pilote_spt_ajustado(p.spt)
        L == PyInt(p.longitud)
    IN IF Len(p.spt) = L
       THEN IF IsErr(Mean3(S, <<-3, -2, -1>>))
            THEN Mean3(S, <<-3, -2, -1>>)
            ELSE Raise("TypeError")
       ELSE Mean3(S, <<L - 2, L - 1, L>>)

Pilote_rp(p) == Mul(Pilote_valor_K(p), Pilote_Np(p))

Pilote_Rp(p) ==
    Div(Mul(Mul(Pilote_alpha(p), Pilote_rp(p)), Pilote_area(p)), Num(gamma_p))

Pilote_beta(p) ==
    Frac(BETA[p.perforacion_tipo + 1][p.suelo_fuste + 1], 100)

Pilote_NL(p) ==
    Mean(Pilote_spt_ajustado(p.spt),
         SlicePos(Len(p.spt), PyInt(p.longitud) - 2))

\* 10e3*(NL/3 + 1)
Pilote_rL(p) ==
    Mul(Num(10000), Add(Div(Pilote_NL(p), Num(3)), Num(1)))

Pilote_RL(p) ==
    Div(Mul(Mul(Pilote_beta(p), Pilote_rL(p)), Pilote_area_lateral(p)),
        gamma_L)

\* R_adm with the cap applied to Strauss piles only
Pilote_R_adm_strauss_only(p) ==
    LET Rp1 == Pilote_Rp(p)
        RL  == Pilote_RL(p)
        Rp_max == IF p.perforacion_tipo \in {1}
                  THEN PyMin(Rp1, Mul(Frac(1, 4), RL))
                  ELSE Rp1
    IN IF IsErr(Rp1) THEN Rp1 ELSE Add(Rp_max, RL)

\* R_adm with the cap applied to the wrong methods: [0, 2] instead of [1, 2]
Pilote_R_adm_cap_driven(p) ==
    LET Rp1 == Pilote_Rp(p)
        RL  == Pilote_RL(p)
        Rp_max == IF p.perforacion_tipo \in {0, 2}
                  THEN PyMin(Rp1, Mul(Frac(1, 4), RL))
                  ELSE Rp1
    IN IF IsErr(Rp1) THEN Rp1 ELSE Add(Rp_max, RL)

Pilote_R_adm(p) ==
    LET Rp1 == Pilote_Rp(p)
        RL  == Pilote_RL(p)
        Rp_max == IF p.perforacion_tipo \in {1, 2}
                  THEN PyMin(Rp1, Mul(Frac(1, 4), RL))
                  ELSE Rp1
    IN IF IsErr(Rp1) THEN Rp1 ELSE Add(Rp_max, RL)

(***************************************************************************)
(* zpilot.py: class Cabezal (c) on its pile design (p)                     *)
(***************************************************************************)
Bool(b) == [k |-> "bool", n |-> IF b THEN 1 ELSE 0, d |-> 1]

Cabezal_peso(c) == Mul(Mul(Mul(c.B, c.B), c.h), Num(peso_esp))

Cabezal_tipologia(tipo) == CASE tipo = 1 -> 4 [] tipo = 2 -> 5 [] tipo = 3 -> 9

Cabezal_tipos_permitidos == {1, 2, 3}

\* the tipo setter had the message of its ValueError evaluated cleanly: the
\* exception is built, never raised, and the assignment is ignored
Cabezal_tipo_setter_swallow(c, tipo2) ==
    IF tipo2 \in Cabezal_tipos_permitidos
    THEN [c |-> [c EXCEPT !.tipo = tipo2], ret |-> Raise("none")]
    ELSE [c |-> c, ret |-> Raise("none")]

\* @tipo.setter: the else branch builds a ValueError without raising it, but
\* evaluating its message raises AttributeError: self.tipo reads _tipo,
\* missing during construction, and self.tipologia.keys() asks a method for
\* the attribute keys
Cabezal_tipo_setter(c, tipo2) ==
    IF tipo2 \in Cabezal_tipos_permitidos
    THEN [c |-> [c EXCEPT !.tipo = tipo2], ret |-> Raise("none")]
    ELSE [c |-> c, ret |-> Raise("AttributeError")]

\* factores() with the nine-pile layout given the factor of the others
Cabezal_factores_all2(tipo) == 2

Cabezal_factores(tipo) == CASE tipo = 1 -> 2 [] tipo = 2 -> 2 [] tipo = 3 -> 3

Cabezal_numero_pilotes(c) == Num(Cabezal_tipologia(c.tipo))

Cabezal_factor_pilote(c) == Num(Cabezal_factores(c.tipo))

Cabezal_separacion_min(p) == Mul(Frac(5, 2), p.diametro)

\* self.numero_pilotes without the call: the bound method object itself
BoundMethod(name) == [k |-> name, n |-> 0, d |-> 1]

\* {4: 1, 5: math.sqrt(2), 9: 2}.get(key, 1)
Cabezal_ancho_min_factores_get(key) ==
    IF key = Num(4) THEN Num(1)
    ELSE IF key = Num(5) THEN math_sqrt2
    ELSE IF key = Num(9) THEN Num(2)
    ELSE Num(1)

Cabezal_ancho_min(c, p) ==
    LET D  == p.diametro
        P  == Pilote_R_adm(p)
        T  == p.traccion
        NP == BoundMethod("Cabezal.numero_pilotes")
        n  == Cabezal_factor_pilote(c)
        v  == c.v
        s_min == Cabezal_separacion_min(p)
        b1 == Mul(Cabezal_ancho_min_factores_get(NP), s_min)
        b2 == Div(Mul(Num(2), Add(Mul(c.H, c.h), c.M)),
                  Add(Mul(n, P), Mul(n, T)))
        b_min == PyMax(b1, b2)
    IN IF IsErr(P) THEN P ELSE Add(Add(Mul(Num(2), v), D), b_min)

Cabezal_cargaH1(c) ==
    Div(Add(c.N, Cabezal_peso(c)), Cabezal_numero_pilotes(c))

Cabezal_cargaH2(c, p) ==
    LET N == c.N
        W == Cabezal_peso(c)
        H == c.H
        M == c.M
        n == Cabezal_factor_pilote(c)
        h == c.h
        b == Sub(Sub(c.B, Mul(Num(2), c.v)), p.diametro)
    IN IF c.tipo = 1
       THEN Div(Add(Div(Add(N, W), Num(2)), Div(Add(Mul(H, h), M), b)), n)
       ELSE Div(Mul(Frac(2, 3),
                    Add(Div(Add(N, W), Num(2)), Div(Add(Mul(H, h), M), b))),
                n)

\* carga_pilote evaluating the wind hypothesis only
Cabezal_carga_pilote_H2_only(c, p) == Cabezal_cargaH2(c, p)

Cabezal_carga_pilote(c, p) ==
    LET H1 == Cabezal_cargaH1(c)
        H2 == Cabezal_cargaH2(c, p)
    IN PyMax(H1, H2)

\* verif_pilote comparing with <=
Cabezal_verif_pilote_le(c, p) ==
    LET q == Cabezal_carga_pilote(c, p)
        r == Pilote_R_adm(p)
    IN IF IsErr(q) THEN q
       ELSE IF IsErr(r) THEN r
       ELSE Bool(Lt(q, r) \/ (IsNum(q) /\ q = r))

Cabezal_verif_pilote(c, p) ==
    LET q == Cabezal_carga_pilote(c, p)
        r == Pilote_R_adm(p)
    IN IF IsErr(q) THEN q
       ELSE IF IsErr(r) THEN r
       ELSE Bool(Lt(q, r))

(***************************************************************************)
(* Inputs                                                                  *)
(***************************************************************************)
\* raw blow counts: below, at, inside, at and above the band [3, 50]
SptValues == {1, 3, 20, 50, 60}

Profiles(vals, lo, hi) == UNION {[1 .. len -> vals] : len \in lo .. hi}

\* pile lengths 0, 0.5, 1, ... : int() truncates the halves
Longitudes(maxL) == {Frac(h, 2) : h \in 0 .. (2 * maxL + 1)}

NoVal == Raise("none")

(***************************************************************************)
(* Suelo: construction and the calls on it                                 *)
(***************************************************************************)
NoPilote == [longitud |-> Num(0), diametro |-> Num(0), traccion |-> Num(0),
             spt |-> <<>>, suelo_punta |-> 0, suelo_fuste |-> 0,
             perforacion_tipo |-> 0]

NoCabezal == [tipo |-> 0, B |-> Num(0), h |-> Num(0), v |-> Num(0),
              N |-> Num(0), H |-> Num(0), M |-> Num(0)]

NoTanque == [capacidad |-> 0]

InitSuelo ==
    /\ suelo \in Profiles(SptValues, 1, MaxDepth)
    /\ pilote = NoPilote
    /\ cabezal = NoCabezal
    /\ tanque = NoTanque
    /\ op = "init"
    /\ arg = NoVal
    /\ ret = NoVal
    /\ arr = <<>>

CallSueloSptAjustado ==
    /\ op' = "Suelo.spt_ajustado"
    /\ arg' = NoVal
    /\ ret' = NoVal
    /\ arr' = Suelo_spt_ajustado(suelo)
    /\ UNCHANGED <<suelo, pilote, cabezal, tanque>>

CallSueloNp ==
    \E l \in Longitudes(MaxDepth + 1) :
        /\ op' = "Suelo.Np"
        /\ arg' = l
        /\ ret' = Suelo_Np(suelo, l)
        /\ arr' = <<>>
        /\ UNCHANGED <<suelo, pilote, cabezal, tanque>>

CallSueloNL ==
    \E l \in Longitudes(MaxDepth + 1) :
        /\ op' = "Suelo.NL"
        /\ arg' = l
        /\ ret' = Suelo_NL(suelo, l)
        /\ arr' = <<>>
        /\ UNCHANGED <<suelo, pilote, cabezal, tanque>>

NextSuelo == CallSueloSptAjustado \/ CallSueloNp \/ CallSueloNL

SpecSuelo == InitSuelo /\ [][NextSuelo]_vars


(***************************************************************************)
(* Pilote: construction, assignment of the installation method, calls      *)
(***************************************************************************)
\* raw blow counts of a pile's survey: below the band and inside it
SptValuesPilote == {2, 30}

\* slender and stocky piles
Diametros == {Frac(1, 5), Num(1)}

\* pile lengths 2, 2.5, 3, 4, ... up to one metre beyond the deepest survey
LongitudesPilote == {Frac(5, 2)} \cup {Num(l) : l \in 2 .. (MaxDepthPilote + 1)}

\* perforacion_tipo is a class attribute: every new Pilote has 1 (Strauss)
Pilotes(profiles, longitudes, diametros, suelos) ==
    [longitud : longitudes, diametro : diametros, traccion : {Num(0)},
     spt : profiles, suelo_punta : suelos, suelo_fuste : suelos,
     perforacion_tipo : {1}]

InitPilote ==
    /\ suelo = <<>>
    /\ pilote \in Pilotes(Profiles(SptValuesPilote, MaxDepthPilote - 1,
                                   MaxDepthPilote),
                          LongitudesPilote, Diametros, 0 .. 3)
    /\ cabezal = NoCabezal
    /\ tanque = NoTanque
    /\ op = "init"
    /\ arg = NoVal
    /\ ret = NoVal
    /\ arr = <<>>

\* pilote.perforacion_tipo = t
SetPerforacionTipo ==
    \E t \in 0 .. 5 :
        /\ pilote' = [pilote EXCEPT !.perforacion_tipo = t]
        /\ op' = "Pilote.perforacion_tipo"
        /\ arg' = Num(t)
        /\ ret' = NoVal
        /\ UNCHANGED <<suelo, cabezal, tanque, arr>>

CallPilote(name, value) ==
    /\ op' = name
    /\ arg' = NoVal
    /\ ret' = value
    /\ UNCHANGED <<suelo, pilote, cabezal, tanque, arr>>

CallPiloteNp == CallPilote("Pilote.Np", Pilote_Np(pilote))

CallPiloteR_adm == CallPilote("Pilote.R_adm", Pilote_R_adm(pilote))

NextPilote ==
    \/ SetPerforacionTipo
    \/ CallPiloteNp
    \/ CallPiloteR_adm

SpecPilote == InitPilote /\ [][NextPilote]_vars

(***************************************************************************)
(* Properties of Pilote                                                    *)
(***************************************************************************)
\* C1: R_adm() applies the NBR-6122 cap.  Whenever Rp() and RL() give
\* numbers, R_adm() gives a number; for perforacion_tipo 1 or 2 it is
\* Rp + RL if Rp does not exceed a quarter of RL and 1.25*RL otherwise, so
\* it never exceeds 1.25*RL; for perforacion_tipo 0, 3, 4, 5 it is Rp + RL.
C1_CapRule ==
    op = "Pilote.R_adm" =>
        LET Rp  == Pilote_Rp(pilote)
            RL  == Pilote_RL(pilote)
            cap == Div(RL, Num(4))
        IN (IsNum(Rp) /\ IsNum(RL)) =>
            /\ IsNum(ret)
            /\ pilote.perforacion_tipo \in {1, 2} =>
                /\ ~Lt(cap, Rp) => ret = Add(Rp, RL)
                /\ Lt(cap, Rp) => ret = Add(RL, cap)
                /\ ~Lt(Mul(Frac(5, 4), RL), ret)
            /\ pilote.perforacion_tipo \in {0, 3, 4, 5} => ret = Add(Rp, RL)

\* C1 witness: a bentonite pile whose tip resistance exceeds the cap
C1_Witness ==
    /\ op = "Pilote.R_adm"
    /\ pilote.perforacion_tipo = 2
    /\ IsNum(ret)
    /\ Lt(Div(Pilote_RL(pilote), Num(4)), Pilote_Rp(pilote))
    /\ ret = Mul(Frac(5, 4), Pilote_RL(pilote))

\* a Strauss pile whose tip resistance stays below the cap
C1_WitnessUncapped ==
    /\ op = "Pilote.R_adm"
    /\ pilote.perforacion_tipo = 1
    /\ IsNum(ret)
    /\ Lt(Pilote_Rp(pilote), Div(Pilote_RL(pilote), Num(4)))

\* C12 as stated: for every profile, geometry with length < surveyed depth
\* and pair of soil categories, R_adm() of the driven pile (tipo 0) is
\* finite, positive and not below R_adm() of the same pile excavated Strauss
\* (tipo 1), which is finite and positive too.
C12_DrivenNotBelowStrauss ==
    (op = "Pilote.R_adm" /\ pilote.perforacion_tipo = 0
        /\ PyInt(pilote.longitud) < Len(pilote.spt)) =>
        LET strauss == Pilote_R_adm([pilote EXCEPT !.perforacion_tipo = 1])
        IN  /\ IsNum(ret) /\ ret.n > 0
            /\ IsNum(strauss) /\ strauss.n > 0
            /\ ~Lt(ret, strauss)

\* C12 amended: the same for every geometry with
\* 3 <= int(length) < surveyed depth.
C12_DrivenNotBelowStraussFromThree ==
    (op = "Pilote.R_adm" /\ pilote.perforacion_tipo = 0
        /\ PyInt(pilote.longitud) >= 3
        /\ PyInt(pilote.longitud) < Len(pilote.spt)) =>
        LET strauss == Pilote_R_adm([pilote EXCEPT !.perforacion_tipo = 1])
        IN  /\ IsNum(ret) /\ ret.n > 0
            /\ IsNum(strauss) /\ strauss.n > 0
            /\ ~Lt(ret, strauss)

\* C12 witness: a driven pile above the end of the survey whose capacity
\* strictly exceeds that of the Strauss pile, the latter being capped
C12_Witness ==
    /\ op = "Pilote.R_adm"
    /\ pilote.perforacion_tipo = 0
    /\ PyInt(pilote.longitud) = 3
    /\ Len(pilote.spt) = 4
    /\ IsNum(ret)
    /\ LET p1 == [pilote EXCEPT !.perforacion_tipo = 1]
       IN /\ Lt(Pilote_R_adm(p1), ret)
          /\ Lt(Div(Pilote_RL(p1), Num(4)), Pilote_Rp(p1))

\* C16: Pilote.Np() returns the same value as Suelo.Np(L) for every profile
\* and pile length 3 <= L <= surveyed depth, the mean of the last three
\* adjusted values at L = surveyed depth included.
C16_TipAveragesAgree ==
    (op = "Pilote.Np" /\ PyInt(pilote.longitud) >= 3
        /\ PyInt(pilote.longitud) <= Len(pilote.spt)) =>
        /\ IsNum(ret)
        /\ ret = Suelo_Np(pilote.spt, pilote.longitud)

(***************************************************************************)
(* Cabezal: construction on a pile design, and the calls on it             *)
(***************************************************************************)
\* pile lengths of the cap's pile: too short for a shaft window, one metre
\* above the end of the survey, and down to the end of the survey
LongitudesCabezal == {Num(2), Num(MaxDepthPilote - 1), Num(MaxDepthPilote)}

\* the vertical load at which the no-wind load per pile equals the capacity
CargaLimite(tipo, B, h, p) ==
    IF IsNum(Pilote_R_adm(p))
    THEN {Sub(Mul(Num(Cabezal_tipologia(tipo)), Pilote_R_adm(p)),
              Mul(Mul(Mul(B, B), h), Num(peso_esp)))}
    ELSE {}

\* base reactions <<H, M>> of the tank: without wind and with wind
Viento == {<<Num(0), Num(0)>>, <<Num(50000), Num(20000)>>}

InitCabezal ==
    /\ suelo = <<>>
    /\ tanque = NoTanque
    /\ pilote \in Pilotes(Profiles(SptValuesPilote, MaxDepthPilote,
                                   MaxDepthPilote),
                          LongitudesCabezal, {Frac(2, 5)}, {1})
    /\ \E tipo \in Cabezal_tipos_permitidos, B \in {Num(1), Num(3)},
          HM \in Viento :
        \E N \in {Num(100000)} \cup CargaLimite(tipo, B, Num(1), pilote) :
            cabezal = [tipo |-> tipo, B |-> B, h |-> Num(1),
                       v |-> Frac(3, 10), N |-> N,
                       H |-> HM[1], M |-> HM[2]]
    /\ op = "init"
    /\ arg = NoVal
    /\ ret = NoVal
    /\ arr = <<>>

CallCabezal(name, value) ==
    /\ op' = name
    /\ arg' = NoVal
    /\ ret' = value
    /\ UNCHANGED <<suelo, pilote, cabezal, tanque, arr>>

CallCargaH1 == CallCabezal("Cabezal.cargaH1", Cabezal_cargaH1(cabezal))

CallCargaH2 ==
    CallCabezal("Cabezal.cargaH2", Cabezal_cargaH2(cabezal, pilote))

CallCargaPilote ==
    CallCabezal("Cabezal.carga_pilote", Cabezal_carga_pilote(cabezal, pilote))

CallVerifPilote ==
    CallCabezal("Cabezal.verif_pilote", Cabezal_verif_pilote(cabezal, pilote))

CallAnchoMin ==
    CallCabezal("Cabezal.ancho_min", Cabezal_ancho_min(cabezal, pilote))

NextCabezal ==
    \/ SetPerforacionTipo
    \/ CallCargaH1
    \/ CallCargaH2
    \/ CallCargaPilote
    \/ CallVerifPilote
    \/ CallAnchoMin

SpecCabezal == InitCabezal /\ [][NextCabezal]_vars

(***************************************************************************)
(* Cabezal.tipo: construction with a layout type and later assignments     *)
(***************************************************************************)
\* layout types handed to the constructor and the setter
TiposAsignados == 0 .. 4

\* no cap yet; its pile design exists
InitTipo ==
    /\ suelo = <<>>
    /\ pilote \in Pilotes(Profiles(SptValuesPilote, MaxDepthPilote,
                                   MaxDepthPilote),
                          {Num(MaxDepthPilote - 1)}, {Frac(2, 5)}, {1})
    /\ cabezal = NoCabezal
    /\ tanque = NoTanque
    /\ op = "init"
    /\ arg = NoVal
    /\ ret = NoVal
    /\ arr = <<>>

\* Cabezal(pilote=pilote, tipo=t, B=B, ...): __init__ assigns self.tipo = t
\* through the setter; the object exists only if no assignment raised
NewCabezal ==
    /\ cabezal = NoCabezal
    /\ \E t \in TiposAsignados, B \in {Num(1), Num(3)}, HM \in Viento :
        LET c0  == [tipo |-> 0, B |-> B, h |-> Num(1), v |-> Frac(3, 10),
                    N |-> Num(100000), H |-> HM[1], M |-> HM[2]]
            set == Cabezal_tipo_setter(c0, t)
        IN  /\ cabezal' = IF set.ret.k \in Exceptions THEN NoCabezal
                          ELSE set.c
            /\ op' = "Cabezal.__init__"
            /\ arg' = Num(t)
            /\ ret' = set.ret
    /\ UNCHANGED <<suelo, pilote, tanque, arr>>

\* cabezal.tipo = t
SetTipo ==
    /\ cabezal # NoCabezal
    /\ \E t \in TiposAsignados :
        LET set == Cabezal_tipo_setter(cabezal, t)
        IN  /\ cabezal' = set.c
            /\ op' = "Cabezal.tipo"
            /\ arg' = Num(t)
            /\ ret' = set.ret
    /\ UNCHANGED <<suelo, pilote, tanque, arr>>

CallNumeroPilotes ==
    /\ cabezal # NoCabezal
    /\ CallCabezal("Cabezal.numero_pilotes", Cabezal_numero_pilotes(cabezal))

NextTipo == NewCabezal \/ SetTipo \/ CallNumeroPilotes

SpecTipo == InitTipo /\ [][NextTipo]_vars

\* C13: constructing a cap with, or assigning to tipo, a value outside
\* {1, 2, 3} fails with an exception at that assignment; an assignment that
\* raised none leaves the assigned value as the layout type, which lies in
\* {1, 2, 3}; every existing cap has a layout type in {1, 2, 3}.
C13_UnknownTipoRejected ==
    /\ op \in {"Cabezal.__init__", "Cabezal.tipo"} =>
        /\ arg.n \notin {1, 2, 3} => ret.k \in Exceptions
        /\ ret.k \notin Exceptions =>
            (cabezal.tipo = arg.n /\ cabezal.tipo \in {1, 2, 3})
    /\ cabezal # NoCabezal => cabezal.tipo \in {1, 2, 3}

\* C13 witness: the assignment of the unknown layout 4 to a nine-pile cap
\* raised and the cap is still a nine-pile cap
C13_Witness ==
    /\ op = "Cabezal.tipo"
    /\ arg = Num(4)
    /\ ret.k \in Exceptions
    /\ cabezal.tipo = 3

(***************************************************************************)
(* Properties of Cabezal                                                   *)
(***************************************************************************)
\* C2: whenever carga_pilote() and R_adm() give a value, verif_pilote()
\* returns a boolean, True if and only if carga_pilote() is strictly less
\* than R_adm(); in every other case, equality included, it returns False.
C2_VerdictIsStrictComparison ==
    op = "Cabezal.verif_pilote" =>
        LET q == Cabezal_carga_pilote(cabezal, pilote)
            r == Pilote_R_adm(pilote)
        IN (~IsErr(q) /\ ~IsErr(r)) =>
            /\ ret \in {Bool(TRUE), Bool(FALSE)}
            /\ ret = Bool(TRUE) <=>
                (IsNum(q) /\ IsNum(r) /\ q.n * r.d < r.n * q.d)
            /\ q = r => ret = Bool(FALSE)

\* C2 witness: a cap whose load per pile equals the capacity exactly, and
\* is therefore not verified
C2_Witness ==
    /\ op = "Cabezal.verif_pilote"
    /\ IsNum(Pilote_R_adm(pilote))
    /\ Cabezal_carga_pilote(cabezal, pilote) = Pilote_R_adm(pilote)
    /\ ret = Bool(FALSE)

\* a verified cap
C2_WitnessTrue ==
    /\ op = "Cabezal.verif_pilote"
    /\ ret = Bool(TRUE)

\* C3: carga_pilote() is the governing maximum of the two hypotheses: it is
\* one of cargaH1() = (N + W)/numero_pilotes() and cargaH2(), and smaller
\* than neither, for every layout and load triple for which both exist.
C3_GoverningMaximum ==
    op = "Cabezal.carga_pilote" =>
        LET W  == Mul(Mul(Mul(cabezal.B, cabezal.B), cabezal.h), Num(24000))
            NP == IF cabezal.tipo = 1 THEN 4
                  ELSE IF cabezal.tipo = 2 THEN 5 ELSE 9
            H1 == Frac(Add(cabezal.N, W).n, Add(cabezal.N, W).d * NP)
            H2 == Cabezal_cargaH2(cabezal, pilote)
        IN  /\ Cabezal_cargaH1(cabezal) = H1
            /\ IsNum(H2) =>
                /\ IsNum(ret)
                /\ ret \in {H1, H2}
                /\ ~Lt(ret, H1)
                /\ ~Lt(ret, H2)

\* C3 witness: a five-pile cap without wind, where the no-wind hypothesis
\* governs
C3_Witness ==
    /\ op = "Cabezal.carga_pilote"
    /\ cabezal.tipo = 2
    /\ IsNum(ret)
    /\ Lt(Cabezal_cargaH2(cabezal, pilote), Cabezal_cargaH1(cabezal))
    /\ ret = Cabezal_cargaH1(cabezal)

\* a cap under wind, where the wind hypothesis governs
C3_WitnessWind ==
    /\ op = "Cabezal.carga_pilote"
    /\ IsNum(ret)
    /\ Lt(Cabezal_cargaH1(cabezal), Cabezal_cargaH2(cabezal, pilote))
    /\ ret = Cabezal_cargaH2(cabezal, pilote)

\* C4: with b = B - 2v - D and W = B^2*h*peso_esp, cargaH2() times n times b
\* equals f*((N + W)/2*b + H*h + M), where n = 2, f = 1 for the four-pile
\* layout, n = 2, f = 2/3 for the five-pile layout and n = 3, f = 2/3 for
\* the nine-pile layout; it raises ZeroDivisionError exactly when b = 0.
C4_LayoutFormula ==
    op = "Cabezal.cargaH2" =>
        LET W == Mul(Mul(Mul(cabezal.B, cabezal.B), cabezal.h), Num(24000))
            b == Sub(Sub(cabezal.B, Add(cabezal.v, cabezal.v)),
                     pilote.diametro)
            n == IF cabezal.tipo = 3 THEN 3 ELSE 2
            f == IF cabezal.tipo = 1 THEN Num(1) ELSE Frac(2, 3)
            rhs == Mul(f, Add(Mul(Div(Add(cabezal.N, W), Num(2)), b),
                              Add(Mul(cabezal.H, cabezal.h), cabezal.M)))
        IN  /\ b.n = 0 <=> ret = Raise("ZeroDivisionError")
            /\ b.n # 0 => (IsNum(ret) /\ Mul(Mul(ret, Num(n)), b) = rhs)

\* C4 witness: the wind load per pile of a nine-pile cap under wind
C4_Witness ==
    /\ op = "Cabezal.cargaH2"
    /\ cabezal.tipo = 3
    /\ cabezal.H.n > 0
    /\ cabezal.M.n > 0
    /\ IsNum(ret)
    /\ ret.n > 0

\* C5: ancho_min() returns 2v + D + max(b1, b2), where b1 is 2.5*D times
\* 1 (four piles), sqrt(2) (five piles) or 2 (nine piles) and
\* b2 = 2*(H*h + M)/(n*(R_adm + traccion)); with H = M = 0 a nine-pile cap
\* requires 2v + D + 5*D and a four-pile cap 2v + D + 2.5*D.
C5_MinimumWidth ==
    (op = "Cabezal.ancho_min" /\ IsNum(Pilote_R_adm(pilote))) =>
        LET D  == pilote.diametro
            k  == IF cabezal.tipo = 1 THEN Num(1)
                  ELSE IF cabezal.tipo = 2 THEN math_sqrt2 ELSE Num(2)
            n  == IF cabezal.tipo = 3 THEN 3 ELSE 2
            b1 == Mul(k, Mul(Frac(5, 2), D))
            b2 == Div(Mul(Num(2), Add(Mul(cabezal.H, cabezal.h), cabezal.M)),
                      Mul(Num(n), Add(Pilote_R_adm(pilote), pilote.traccion)))
            wide == Add(Add(Mul(Num(2), cabezal.v), D),
                        IF Lt(b1, b2) THEN b2 ELSE b1)
        IN  /\ ret = wide
            /\ (cabezal.H.n = 0 /\ cabezal.M.n = 0 /\ cabezal.tipo = 3) =>
                 ret = Add(Add(Mul(Num(2), cabezal.v), D), Mul(Num(5), D))
            /\ (cabezal.H.n = 0 /\ cabezal.M.n = 0 /\ cabezal.tipo = 1) =>
                 ret = Add(Add(Mul(Num(2), cabezal.v), D),
                           Mul(Frac(5, 2), D))

(***************************************************************************)
(* Properties of Suelo                                                     *)
(***************************************************************************)
\* C6: spt_ajustado() returns a sequence of the same length whose values
\* all lie in [3, 50]: a raw value below 3 becomes 3, one above 50 becomes
\* 50, one inside the band is unchanged, and a larger raw value never gives
\* a smaller adjusted value.  Holds of Suelo.spt_ajustado (the returned
\* array) and of Pilote.spt_ajustado on the same survey.
C6_AdjustedInBand ==
    op = "Suelo.spt_ajustado" =>
        \A out \in {arr, Pilote_spt_ajustado(suelo)} :
            /\ Len(out) = Len(suelo)
            /\ \A i \in 1 .. Len(suelo) :
                /\ out[i] >= 3 /\ out[i] <= 50
                /\ suelo[i] < 3 => out[i] = 3
                /\ suelo[i] > 50 => out[i] = 50
                /\ (suelo[i] >= 3 /\ suelo[i] <= 50) => out[i] = suelo[i]
                /\ \A j \in 1 .. Len(suelo) :
                     suelo[i] <= suelo[j] => out[i] <= out[j]

\* C6 witness: an adjusted survey that needed both saturations and kept a
\* value of the band
C6_Witness ==
    /\ op = "Suelo.spt_ajustado"
    /\ \E i, j, m \in 1 .. Len(suelo) :
        /\ suelo[i] < 3 /\ arr[i] = 3
        /\ suelo[j] > 50 /\ arr[j] = 50
        /\ suelo[m] = 20 /\ arr[m] = 20

\* C7: Np and NL both fail with an out-of-range error whenever the pile
\* length L = int(longitud_pilote) exceeds the surveyed depth len(spt).
C7_BothFailBeyondSurvey ==
    (op \in {"Suelo.Np", "Suelo.NL"} /\ PyInt(arg) > Len(suelo))
        => ret.k = "IndexError"

\* C8 as stated: for every pile length 1 <= L <= surveyed depth Np(L) and
\* NL(L) both succeed and return a finite number.
C8_FiniteFromOne ==
    (op \in {"Suelo.Np", "Suelo.NL"}
        /\ PyInt(arg) >= 1 /\ PyInt(arg) <= Len(suelo))
        => IsNum(ret)

\* C8 amended: for every pile length 3 <= L <= surveyed depth Np(L) and
\* NL(L) both succeed and return a finite number, which lies in the band
\* [3, 50] of the adjusted values it averages.
C8_FiniteFromThree ==
    (op \in {"Suelo.Np", "Suelo.NL"}
        /\ PyInt(arg) >= 3 /\ PyInt(arg) <= Len(suelo))
        => /\ IsNum(ret)
           /\ 3 * ret.d <= ret.n
           /\ ret.n <= 50 * ret.d

\* C8 witness: the shaft average of a 3 m pile, whose window is one value
C8_Witness ==
    /\ op = "Suelo.NL"
    /\ PyInt(arg) = 3
    /\ Len(suelo) >= 3
    /\ IsNum(ret)

\* C9: Np averages exactly three adjusted values around the tip: the last
\* three when L equals the surveyed depth; the ones at positions L-2, L-1
\* and L from the surface when 0 < L < surveyed depth, and never a
\* measurement deeper than position L.
C9_TipWindow ==
    op = "Suelo.Np" =>
        LET L   == PyInt(arg)
            ps  == Len(suelo)
            idx == Suelo_Np_indices(suelo, arg)
            A(p) == IF suelo[p + 1] < 3 THEN 3
                    ELSE IF suelo[p + 1] > 50 THEN 50 ELSE suelo[p + 1]
        IN  /\ (L = ps /\ ps >= 3) =>
                ret = Frac(A(ps - 3) + A(ps - 2) + A(ps - 1), 3)
            /\ (0 < L /\ L < ps) =>
                /\ IsNum(ret)
                /\ \A i \in 1 .. 3 : PyPos(ps, idx[i]) \in 0 .. L
                /\ L >= 2 => ret = Frac(A(L - 2) + A(L - 1) + A(L), 3)

\* C10: NL is the mean of exactly the adjusted values at positions
\* 0 .. L-3 for every pile length 1 <= L <= surveyed depth; it never
\* includes a measurement at position L-2 or deeper.
C10_ShaftWindow ==
    (op = "Suelo.NL" /\ PyInt(arg) >= 1 /\ PyInt(arg) <= Len(suelo)) =>
        LET L == PyInt(arg)
            A == [i \in 1 .. Len(suelo) |->
                    IF suelo[i] < 3 THEN 3
                    ELSE IF suelo[i] > 50 THEN 50 ELSE suelo[i]]
        IN  /\ Suelo_NL_window(suelo, arg) = 0 .. (L - 3)
            /\ L >= 3 => ret = Frac(SumAt(A, 0 .. (L - 3)), L - 2)

\* C11 as stated: for every survey of depth d >= 2, Np(d) (last three
\* measurements) succeeds and returns the same value as Np(d-1) (straddling
\* indices).
C11_ContinuousFromTwo ==
    (op = "Suelo.Np" /\ PyInt(arg) = Len(suelo) /\ Len(suelo) >= 2) =>
        /\ IsNum(ret)
        /\ ret = Suelo_Np(suelo, Num(Len(suelo) - 1))

\* C11 amended: for every survey of depth d >= 3, Np(d) succeeds and
\* returns the same value as Np(d-1).
C11_ContinuousFromThree ==
    (op = "Suelo.Np" /\ PyInt(arg) = Len(suelo) /\ Len(suelo) >= 3) =>
        /\ IsNum(ret)
        /\ ret = Suelo_Np(suelo, Num(Len(suelo) - 1))

\* C11 witness: the tip average at the end of a survey whose last three
\* measurements differ from the one above them
C11_Witness ==
    /\ op = "Suelo.Np"
    /\ Len(suelo) = 4
    /\ arg = Num(4)
    /\ suelo[1] = 60 /\ suelo[2] = 1 /\ suelo[3] = 20 /\ suelo[4] = 50
    /\ ret = Frac(73, 3)

(***************************************************************************)
(* Tanque (tanque.py): capacity class and drag coefficient                 *)
(***************************************************************************)
Tanque_capacidades_permitidas == {15, 20, 30, 60}

\* a setter that stores the new value before validating it
Tanque_capacidad_setter_store_first(t, nueva_capacidad) ==
    IF nueva_capacidad \in Tanque_capacidades_permitidas
    THEN [t |-> [t EXCEPT !.capacidad = nueva_capacidad], ret |-> Raise("none")]
    ELSE [t |-> [t EXCEPT !.capacidad = nueva_capacidad],
          ret |-> Raise("ValueError")]

\* @capacidad.setter
Tanque_capacidad_setter(t, nueva_capacidad) ==
    IF nueva_capacidad \in Tanque_capacidades_permitidas
    THEN [t |-> [t EXCEPT !.capacidad = nueva_capacidad], ret |-> Raise("none")]
    ELSE [t |-> t, ret |-> Raise("ValueError")]

\* datos_tanques, column diam_fuste, row of the stored capacity
Tanque_diam_fuste(t) ==
    IF t.capacidad = 60 THEN Frac(3, 2) ELSE Frac(4, 5)

\* datos_tanques, column altura_fuste, row of the stored capacity
Tanque_altura_fuste(t) ==
    IF t.capacidad = 60 THEN Num(14) ELSE Num(12)

\* diameter/height ratios of the table of coef_resist
DsH == <<Num(0), Frac(1, 40), Frac(1, 20), Frac(1, 10), Frac(1, 5),
         Frac(1, 3), Frac(1, 2), Num(1)>>

\* drag coefficients of the table of coef_resist
CD == <<Frac(6, 5), Frac(49, 50), Frac(91, 100), Frac(41, 50), Frac(37, 50),
        Frac(18, 25), Frac(17, 25), Frac(37, 50)>>

\* abs(x)
AbsVal(x) == IF IsNum(x) /\ x.n < 0 THEN Neg(x) ELSE x

\* S[i] on a list: IndexError out of bounds, negative i counts from the end
Item(S, i) ==
    IF PyPos(Len(S), i) = -1 THEN Raise("IndexError")
    ELSE S[PyPos(Len(S), i) + 1]

\* the loop of coef_resist from table position contador on: st holds menor,
\* punto and u (u = -1 while punto and u are unbound)
RECURSIVE Tanque_coef_resist_loop(_, _, _)
Tanque_coef_resist_loop(dh, contador, st) ==
    IF contador >= Len(DsH) THEN st
    ELSE LET i == DsH[contador + 1]
             x == AbsVal(Sub(dh, i))
         IN Tanque_coef_resist_loop(dh, contador + 1,
                IF Lt(x, st.menor)
                THEN [menor |-> x, punto |-> i, u |-> contador]
                ELSE st)

Tanque_coef_resist(dh) ==
    LET st == Tanque_coef_resist_loop(dh, 0,
                  [menor |-> Num(2), punto |-> Raise("none"), u |-> -1])
        u  == st.u
    IN  IF u = -1 THEN Raise("UnboundLocalError")
        ELSE IF Lt(st.punto, dh)
        THEN Add(Mul(Div(Sub(Item(CD, u), Item(CD, u + 1)),
                         Sub(Item(DsH, u + 1), Item(DsH, u))),
                     Sub(Item(DsH, u + 1), dh)),
                 Item(CD, u + 1))
        ELSE IF Lt(dh, st.punto)
        THEN Add(Mul(Div(Sub(Item(CD, u - 1), Item(CD, u)),
                         Sub(Item(DsH, u), Item(DsH, u - 1))),
                     Sub(Item(DsH, u), dh)),
                 Item(CD, u))
        ELSE st.punto

Tanque_cd_fuste(t) ==
    Tanque_coef_resist(Div(Tanque_diam_fuste(t), Tanque_altura_fuste(t)))

\* capacities handed to the constructor and the setter
CapacidadesAsignadas == {10, 15, 20, 25, 30, 60, 100}

\* ratios handed to coef_resist: the table's span in steps of 1/120, which
\* meets every tabulated ratio, and ratios below 0 and above 1
Ratios ==
    {Frac(k, 120) : k \in -12 .. 132} \cup {Frac(3, 28), Num(3)}

InitTanque ==
    /\ suelo = <<>>
    /\ pilote = NoPilote
    /\ cabezal = NoCabezal
    /\ tanque = NoTanque
    /\ op = "init"
    /\ arg = NoVal
    /\ ret = NoVal
    /\ arr = <<>>

\* Tanque(viento, capacidad=v): __init__ assigns self.capacidad = v through
\* the setter; the object exists only if the assignment did not raise
NewTanque ==
    /\ tanque = NoTanque
    /\ \E v \in CapacidadesAsignadas :
        LET set == Tanque_capacidad_setter([capacidad |-> 0], v)
        IN  /\ tanque' = IF set.ret.k \in Exceptions THEN NoTanque ELSE set.t
            /\ op' = "Tanque.__init__"
            /\ arg' = Num(v)
            /\ ret' = set.ret
    /\ UNCHANGED <<suelo, pilote, cabezal, arr>>

\* tanque.capacidad = v
SetCapacidad ==
    /\ tanque # NoTanque
    /\ \E v \in CapacidadesAsignadas :
        LET set == Tanque_capacidad_setter(tanque, v)
        IN  /\ tanque' = set.t
            /\ op' = "Tanque.capacidad"
            /\ arg' = Num(v)
            /\ ret' = set.ret
    /\ UNCHANGED <<suelo, pilote, cabezal, arr>>

CallCoefResist ==
    /\ tanque # NoTanque
    /\ \E dh \in Ratios :
        /\ op' = "Tanque.coef_resist"
        /\ arg' = dh
        /\ ret' = Tanque_coef_resist(dh)
    /\ UNCHANGED <<suelo, pilote, cabezal, tanque, arr>>

CallCdFuste ==
    /\ tanque # NoTanque
    /\ op' = "Tanque.cd_fuste"
    /\ arg' = NoVal
    /\ ret' = Tanque_cd_fuste(tanque)
    /\ UNCHANGED <<suelo, pilote, cabezal, tanque, arr>>

NextTanque == NewTanque \/ SetCapacidad \/ CallCoefResist \/ CallCdFuste

SpecTanque == InitTanque /\ [][NextTanque]_vars

(***************************************************************************)
(* Properties of Tanque                                                    *)
(***************************************************************************)
\* C14: the stored capacity of every existing tank is one of 15, 20, 30, 60;
\* an assignment of an allowed value (at construction or later) raises
\* nothing and stores it; an assignment of any other value raises ValueError
\* and the step leaves the stored capacity as it was.
C14_CapacityAllowed ==
    /\ [](/\ tanque # NoTanque =>
                tanque.capacidad \in Tanque_capacidades_permitidas
          /\ op \in {"Tanque.__init__", "Tanque.capacidad"} =>
                IF arg.n \in Tanque_capacidades_permitidas
                THEN ret.k \notin Exceptions /\ tanque.capacidad = arg.n
                ELSE ret.k = "ValueError")
    /\ [][(op' \in {"Tanque.__init__", "Tanque.capacidad"}
            /\ arg'.n \notin Tanque_capacidades_permitidas) =>
                tanque' = tanque]_vars

\* C14 witness: a tank of 30 m3 refused the capacity 25 and still holds 30
C14_Witness ==
    /\ op = "Tanque.capacidad"
    /\ arg = Num(25)
    /\ ret.k = "ValueError"
    /\ tanque.capacidad = 30

\* C15: for every ratio dh in [0, 1] coef_resist(dh) is a number between the
\* coefficients CD of two neighbouring tabulated ratios that bracket dh, and
\* for dh equal to the tabulated ratio DsH[i] it is CD[i].
C15_InterpolatesTable ==
    (op = "Tanque.coef_resist" /\ ~Lt(arg, Num(0)) /\ ~Lt(Num(1), arg)) =>
        /\ IsNum(ret)
        /\ \E i \in 1 .. (Len(DsH) - 1) :
            /\ ~Lt(arg, DsH[i])
            /\ ~Lt(DsH[i + 1], arg)
            /\ ~Lt(ret, PyMin(CD[i], CD[i + 1]))
            /\ ~Lt(PyMax(CD[i], CD[i + 1]), ret)
        /\ \A i \in 1 .. Len(DsH) : arg = DsH[i] => ret = CD[i]

====
